---- MODULE Spec2Model ----
(***************************************************************************)
(* Purchase fulfillment pipeline of the ImNotArt marketplace.              *)
(*                                                                         *)
(* The Stripe webhook handler (src/app/api/webhook/stripe/route.ts) and    *)
(* the tables and stored function it uses (supabase-schema.sql).  Every    *)
(* webhook delivery is a process; one action is one awaited storage or     *)
(* transport operation together with the synchronous code that follows it  *)
(* up to the next await.                                                   *)
(***************************************************************************)
EXTENDS Integers, Sequences, FiniteSets, TLC

(***************************************************************************)
(* Bounds of the model.                                                    *)
(***************************************************************************)
MaxDeliveries == 3      \* webhook deliveries (requests) in one behaviour
MaxInFlight   == 2      \* deliveries being processed at the same time
MaxFaults     == 1      \* storage / transport failures in one behaviour
MaxEditions   == 2      \* largest max_editions of an artwork
MaxRequests   == 4      \* redemption requests in one behaviour
MaxClock      == 8      \* days the clock can advance
MaxCalls      == 2      \* calls of the email sender in one behaviour

Deliveries == 1..MaxDeliveries
Requests   == 1..MaxRequests
Calls      == 1..MaxCalls

(***************************************************************************)
(* Program constants.                                                      *)
(***************************************************************************)
maxRetries == 3         \* sendDownloadEmailWithRetry(params, maxRetries = 3)

(***************************************************************************)
(* The world outside the handler: artworks, payments and the events        *)
(* Stripe can deliver.  A payment is one checkout session with its         *)
(* payment intent (stripe_session_id / stripe_payment_intent_id).          *)
(***************************************************************************)
Artworks == {1}
Payments == {1, 2, 3, 4}

\* event.id -> the fields of the Stripe event the handler reads
Event(e) ==
  CASE e = 1 -> [type |-> "checkout.session.completed", pay |-> 1,
                 artworkId |-> 1, buyerEmail |-> TRUE, wallet |-> TRUE]
    [] e = 2 -> [type |-> "checkout.session.completed", pay |-> 2,
                 artworkId |-> 1, buyerEmail |-> TRUE, wallet |-> FALSE]
    [] e = 3 -> [type |-> "payment_intent.payment_failed", pay |-> 1,
                 artworkId |-> 0, buyerEmail |-> FALSE, wallet |-> FALSE]
    [] e = 4 -> [type |-> "checkout.session.completed", pay |-> 2,
                 artworkId |-> 0, buyerEmail |-> TRUE, wallet |-> FALSE]
    [] e = 6 -> [type |-> "checkout.session.completed", pay |-> 3,
                 artworkId |-> 1, buyerEmail |-> TRUE, wallet |-> TRUE]
    [] e = 7 -> [type |-> "checkout.session.completed", pay |-> 4,
                 artworkId |-> 1, buyerEmail |-> TRUE, wallet |-> TRUE]
    [] OTHER -> [type |-> "customer.created", pay |-> 0,
                 artworkId |-> 0, buyerEmail |-> FALSE, wallet |-> FALSE]

EventIds   == 1..5                  \* the events of the fulfillment behaviours
MintEvents == {1, 6}               \* two sales of artwork 1 to buyers with wallets
SaleEvents == <<1, 6, 7>>           \* three sales of artwork 1 to buyers with wallets
AllEvents  == EventIds \cup MintEvents \cup {7}
NoHeader   == 0
HeaderKeys == {101}                 \* values of stripe-idempotency-key
\* the replay-protection header a delivery of event e may carry
HeadersOf(e) == IF e = 1 THEN {NoHeader} \cup HeaderKeys ELSE {NoHeader}
Keys       == AllEvents \cup HeaderKeys

Checkouts == {e \in AllEvents : /\ Event(e).type = "checkout.session.completed"
                               /\ Event(e).artworkId # 0
                               /\ Event(e).buyerEmail}

(***************************************************************************)
(* Results of processEventWithTransaction and HTTP responses.              *)
(***************************************************************************)
Ok        == [received |-> TRUE,  error |-> "-"]
Fail(msg) == [received |-> FALSE, error |-> msg]
NoResult  == [received |-> FALSE, error |-> "<null>"]
NoResponse == [status |-> 0, body |-> NoResult]

ErrDuplicate == "Error creating purchase: duplicate key value violates unique constraint"
ErrInsert    == "Error creating purchase: storage error"
ErrEditions  == "Error updating artwork editions: storage error"
ErrToken     == "Error creating download token: storage error"
ErrArtwork   == "Artwork not found"
ErrMetadata  == "Missing required metadata"
ErrSignature == "Webhook signature verification failed"

VARIABLES
  artworks,         \* table artworks: id -> [max_editions, current_editions]
  purchases,        \* table purchases: set of rows
  nextPurchaseId,   \* SERIAL sequence of purchases.id
  download_tokens,  \* table download_tokens: set of rows
  processedEvents,  \* in-memory Map eventKey -> result (NoResult: absent)
  webhook_events,   \* durable ledger event_id -> result (NoResult: absent)
  emailLog,         \* payment -> email send sequences started for it
  mintQueue,        \* purchase ids handed to queueNFTMinting
  pc,               \* delivery -> position in POST
  local,            \* delivery -> local variables of POST
  response,         \* delivery -> HTTP response returned
  faultsLeft,       \* failures the environment may still inject
  mintJobs,         \* purchase id -> the mint job queued for it
  chain,            \* the ImNotArtNFT contract and the transactions sent to it
  nft_minting_errors, \* table nft_minting_errors: purchase ids
  dlPc,             \* redemption request -> position in GET
  dlLocal,          \* redemption request -> local variables of GET
  dlResponse,       \* redemption request -> HTTP status returned
  now,              \* the clock, in days since the DownloadToken was created
  mail,             \* call of sendDownloadEmailWithRetry -> its loop state
  wm,               \* the WalletStateManager of one browser page
  svc,              \* the call of ContractService in progress
  hist              \* history: what each delivery and payment went through

vars == <<artworks, purchases, nextPurchaseId, download_tokens, processedEvents,
          webhook_events, emailLog, mintQueue, pc, local, response,
          faultsLeft, mintJobs, chain, nft_minting_errors,
          dlPc, dlLocal, dlResponse, now, mail, wm, svc, hist>>

db == <<artworks, purchases, nextPurchaseId, download_tokens, emailLog, mintQueue,
        mintJobs>>
ledger == <<processedEvents, webhook_events>>
minting == <<chain, nft_minting_errors>>
redemption == <<dlPc, dlLocal, dlResponse, now>>
\* the components that run apart from the webhook and its jobs
apart == <<mail, wm, svc>>

(***************************************************************************)
(* Initial state: an empty shop with one artwork on sale, no delivery      *)
(* received yet.                                                           *)
(***************************************************************************)
NoLocal == [ev |-> 0, key |-> 0, result |-> NoResult, purchaseId |-> 0,
            token_id |-> 0]

\* ids of purchases (one insert per delivery at most) and of on-chain tokens
PurchaseIds == 1..MaxDeliveries
TokenIds    == 1..MaxDeliveries
NoToken     == 0                   \* artworks.token_id IS NULL
NoTx        == 0                   \* purchases.nft_tx_hash IS NULL

\* a GasEstimate (supabase.ts lines 107-114), amounts in gwei; the two cost
\* fields are only logged and are left out
NoEstimate == [estimatedGas |-> 0, gasPrice |-> 0, maxFeePerGas |-> 0,
               maxPriorityFeePerGas |-> 0]

\* ContractService with no call in progress.  A call keeps: its method, the
\* estimate, the transactions it submitted, what waitForTransaction came to
\* and the TxStatus.status the monitor returned, the token id the contract
\* assigned and the logs of the receipt, the error thrown or the value
\* returned.  estimated, reduced and priceAtCheck are history: how the
\* estimation ended, how often the priority fee was reduced, the envelope
\* before the price check.
NoService ==
  [pc |-> "idle", method |-> "none", gas |-> NoEstimate, sent |-> <<>>,
   wait |-> "none", status |-> "none", assigned |-> NoToken, logs |-> <<>>,
   err |-> "none", ret |-> NoToken,
   estimated |-> "none", reduced |-> 0, atCheck |-> NoEstimate]

\* WalletStateManager after its constructor (wallet-manager.ts lines 38-58)
\* in a browser with no saved connection: restoreConnectionState returns
\* false.  user and timer are the positions of the connectWalletWithRetry
\* call made by the user and of the one made by the reconnect timer;
\* reconnectTimer tells which caller of handleDisconnection armed the pending
\* timer.  quiet and autoAfterDisconnect are history: the user disconnected
\* and has not called connectWalletWithRetry since; a timer armed by
\* disconnect() fired meanwhile.
Callers == {"user", "timer"}
NewManager ==
  [connected |-> FALSE, connecting |-> FALSE, reconnectAttempts |-> 0,
   reconnectTimer |-> "none", saved |-> FALSE,
   user |-> "idle", timer |-> "idle",
   quiet |-> FALSE, autoAfterDisconnect |-> FALSE]

\* a call of sendDownloadEmailWithRetry that has not started: the attempt
\* counter, what each attempt came to, the backoff waits made (milliseconds)
\* and the value returned
NoCall == [pc |-> "idle", attempt |-> 0, log |-> <<>>, waits |-> <<>>,
           ret |-> "none"]

\* the local variables of a redemption request before it read anything
NoDownload == [token |-> 0, download_count |-> 0]

\* the parameters and position of a job queued by queueNFTMinting
NoJob == [pc |-> "none", token_id |-> NoToken, txHash |-> NoTx]

\* the contract after its constructor: _tokenIdCounter = 1, no tokenInfo
NewContract ==
  [tokenIdCounter |-> 1,
   tokenInfo |-> [t \in TokenIds |-> [created |-> FALSE, maxSupply |-> 0,
                                      currentSupply |-> 0]],
   createTx  |-> [a \in Artworks |-> 0],   \* createToken transactions sent
   mintTx    |-> [id \in PurchaseIds |-> 0], \* mintToken transactions sent
   balance   |-> [id \in PurchaseIds |-> 0]] \* tokens held by the buyer of id

InitHist ==
  [incCount   |-> [p \in Payments |-> 0],        \* successful increments made for p
   soldOutAt  |-> [d \in Deliveries |-> FALSE],  \* d's increment found current = max
   faulted    |-> [d \in Deliveries |-> FALSE],  \* a step of d failed
   raceLost   |-> [d \in Deliveries |-> FALSE],  \* d's insert hit the uniqueness violation
   badSig     |-> [d \in Deliveries |-> FALSE],  \* d carried an invalid signature
   sawPurchase |-> [d \in Deliveries |-> FALSE], \* d's exists check ran when a Purchase existed
   firstResp  |-> [e \in AllEvents |-> NoResult], \* body of the first completed delivery of e
   after      |-> [d \in Deliveries |-> NoResult], \* firstResp of d's event when d arrived
   cleanStart |-> [d \in Deliveries |-> FALSE],  \* no failure can occur since d arrived
   ledgerRead |-> [d \in Deliveries |-> FALSE],  \* d consulted the ledger
   emailOutcome |-> [d \in Deliveries |-> "none"], \* what the transport did for d
   mintFault  |-> FALSE,                         \* a step of a mint job failed
   dlFault    |-> FALSE,                         \* a step of a redemption failed
   effects    |-> [d \in Deliveries |-> {}]]     \* fulfillment steps d performed

\* the state after construction, the artwork on sale with one of the
\* edition limits ms
StartWith(ms) ==
  /\ artworks \in [Artworks -> {[max_editions |-> m, current_editions |-> 0,
                                  token_id |-> NoToken] : m \in ms}]
  /\ purchases = {}
  /\ nextPurchaseId = 1
  /\ download_tokens = {}
  /\ processedEvents = [k \in Keys |-> NoResult]
  /\ webhook_events = [k \in Keys |-> NoResult]
  /\ emailLog = [p \in Payments |-> 0]
  /\ mintQueue = {}
  /\ pc = [d \in Deliveries |-> "idle"]
  /\ local = [d \in Deliveries |-> NoLocal]
  /\ response = [d \in Deliveries |-> NoResponse]
  /\ mintJobs = [id \in PurchaseIds |-> NoJob]
  /\ chain = NewContract
  /\ nft_minting_errors = {}
  /\ dlPc = [r \in Requests |-> "idle"]
  /\ dlLocal = [r \in Requests |-> NoDownload]
  /\ dlResponse = [r \in Requests |-> 0]
  /\ now = 0
  /\ mail = [c \in Calls |-> NoCall]
  /\ wm = NewManager
  /\ svc = NoService
  /\ hist = InitHist

Start == StartWith(1..MaxEditions)

Init == Start /\ faultsLeft = MaxFaults

(***************************************************************************)
(* Helpers of the handler.                                                 *)
(***************************************************************************)
\* variant: a verification that accepts any signature
constructEvent_acceptsAll(sig) == TRUE

\* stripe.webhooks.constructEvent: throws unless the signature verifies
constructEvent(sig) == sig

\* const eventKey = idempotencyKey || event.id
eventKey(hdr, e) == IF hdr # NoHeader THEN hdr ELSE e

\* variant: a cache lookup that never hits
cached_neverHits(k) == NoResult

\* processedEvents.get(eventKey)
cached(k) == processedEvents[k]

\* variant: an exists check that never finds the row
existingPurchase_neverFound(p) == {}

\* select id from purchases where stripe_session_id = session .single():
\* data is the row when exactly one row matches, null otherwise
existingPurchase(p) ==
  LET rows == {r \in purchases : r.stripe_session_id = p}
  IN  IF Cardinality(rows) = 1 THEN rows ELSE {}

\* variant: a purchases table without the uniqueness constraint
uniqueViolation_unconstrained(p) == FALSE

\* UNIQUE (stripe_payment_intent_id) of table purchases
uniqueViolation(p) == \E r \in purchases : r.stripe_payment_intent_id = p

\* variant: an increment that is not conditioned on current_editions < max_editions
increment_artwork_editions_unconditional(a) ==
  [artworks EXCEPT ![a].current_editions = @ + 1]

\* the stored function increment_artwork_editions(artwork_id)
increment_artwork_editions(a) ==
  [artworks EXCEPT ![a].current_editions =
     IF artworks[a].current_editions < artworks[a].max_editions
       THEN @ + 1 ELSE @]

\* variant: a sender that reports success whatever the transport did
sendDownloadEmailWithRetry_alwaysTrue(outs, attempt) == TRUE

\* sendDownloadEmailWithRetry over the outcomes of the transport, attempt by attempt
RECURSIVE sendDownloadEmailWithRetry(_, _)
sendDownloadEmailWithRetry(outs, attempt) ==
  IF attempt > maxRetries THEN FALSE
  ELSE IF outs[attempt] THEN TRUE
  ELSE sendDownloadEmailWithRetry(outs, attempt + 1)

\* variant: a mint job queued for every purchase
queueNFTMinting_always(e, id) == mintQueue \cup {id}

\* queueNFTMinting is called only when a wallet address was supplied
queueNFTMinting(e, id) == IF Event(e).wallet THEN mintQueue \cup {id} ELSE mintQueue

\* lines 349-362: the job queueNFTMinting arms for delivery d, holding the
\* artwork row the handler read (params.artwork)
armMintJob(d) ==
  LET e == local[d].ev
  IN  IF Event(e).wallet
        THEN [mintJobs EXCEPT ![local[d].purchaseId] =
                [pc |-> "queued", token_id |-> local[d].token_id, txHash |-> NoTx]]
        ELSE mintJobs

\* the first completed delivery of an event fixes hist.firstResp
RecordFirst(h, e, body) ==
  [h EXCEPT !.firstResp[e] = IF @ = NoResult THEN body ELSE @]

Effect(h, d, what) == [h EXCEPT !.effects[d] = @ \cup {what}]

\* a fallible step either works or consumes one of the failures left
StepOutcomes == {ok \in BOOLEAN : ok \/ faultsLeft > 0}
Consume(ok) == faultsLeft' = IF ok THEN faultsLeft ELSE faultsLeft - 1

InFlight == {d \in Deliveries : pc[d] \notin {"idle", "done"}}

(***************************************************************************)
(* POST, lines 22-52: signature verification and the cache tier of the     *)
(* ledger.                                                                 *)
(***************************************************************************)
Receive(d, e, sig, hdr) ==
  /\ pc[d] = "idle"
  /\ UNCHANGED <<minting, redemption, apart>>
  /\ \A c \in Deliveries : c < d => pc[c] # "idle"
  /\ Cardinality(InFlight) < MaxInFlight
  /\ UNCHANGED <<db, faultsLeft, webhook_events, processedEvents>>
  /\ IF ~constructEvent(sig)
       THEN /\ pc' = [pc EXCEPT ![d] = "done"]
            /\ response' = [response EXCEPT ![d] =
                              [status |-> 400, body |-> [error |-> ErrSignature]]]
            /\ local' = local
            /\ hist' = [hist EXCEPT !.badSig[d] = ~sig]
       ELSE LET k == eventKey(hdr, e)
                h == [hist EXCEPT !.badSig[d] = ~sig,
                                  !.after[d] = hist.firstResp[e],
                                  !.cleanStart[d] = (faultsLeft = 0),
                                  !.ledgerRead[d] = TRUE]
            IN  IF cached(k) # NoResult
                  THEN /\ pc' = [pc EXCEPT ![d] = "done"]
                       /\ response' = [response EXCEPT ![d] =
                                         [status |-> 200, body |-> cached(k)]]
                       /\ local' = [local EXCEPT ![d].ev = e, ![d].key = k]
                       /\ hist' = RecordFirst(h, e, cached(k))
                  ELSE /\ pc' = [pc EXCEPT ![d] = "lookup"]
                       /\ local' = [local EXCEPT ![d].ev = e, ![d].key = k]
                       /\ response' = response
                       /\ hist' = h

(***************************************************************************)
(* checkProcessedEvent, lines 73-93, then the dispatch of                  *)
(* processEventWithTransaction, lines 127-138.                             *)
(***************************************************************************)
Lookup(d) ==
  /\ pc[d] = "lookup"
  /\ UNCHANGED <<minting, redemption, apart>>
  /\ UNCHANGED <<db, faultsLeft, webhook_events>>
  /\ LET e == local[d].ev
         k == local[d].key
     IN  IF webhook_events[k] # NoResult
           THEN /\ processedEvents' = [processedEvents EXCEPT ![k] = webhook_events[k]]
                /\ pc' = [pc EXCEPT ![d] = "done"]
                /\ response' = [response EXCEPT ![d] =
                                  [status |-> 200, body |-> webhook_events[k]]]
                /\ local' = local
                /\ hist' = RecordFirst(hist, e, webhook_events[k])
           ELSE /\ UNCHANGED <<processedEvents, response, hist>>
                /\ CASE Event(e).type = "checkout.session.completed" ->
                          IF Event(e).artworkId = 0 \/ ~Event(e).buyerEmail
                            THEN /\ pc' = [pc EXCEPT ![d] = "mark"]
                                 /\ local' = [local EXCEPT ![d].result = Fail(ErrMetadata)]
                            ELSE /\ pc' = [pc EXCEPT ![d] = "exists"]
                                 /\ local' = local
                     [] Event(e).type = "payment_intent.payment_failed" ->
                          /\ pc' = [pc EXCEPT ![d] = "payfail"]
                          /\ local' = local
                     [] OTHER ->
                          /\ pc' = [pc EXCEPT ![d] = "mark"]
                          /\ local' = [local EXCEPT ![d].result = Ok]

(***************************************************************************)
(* processEventWithTransaction, checkout.session.completed, lines 140-268. *)
(***************************************************************************)
\* lines 140-150: the Purchase-exists check
ExistsCheck(d) ==
  /\ pc[d] = "exists"
  /\ UNCHANGED <<minting, redemption, apart>>
  /\ UNCHANGED <<db, ledger, response, faultsLeft>>
  /\ hist' = [hist EXCEPT !.sawPurchase[d] =
                \E r \in purchases : r.stripe_session_id = Event(local[d].ev).pay]
  /\ IF existingPurchase(Event(local[d].ev).pay) # {}
       THEN /\ pc' = [pc EXCEPT ![d] = "mark"]
            /\ local' = [local EXCEPT ![d].result = Ok]
       ELSE /\ pc' = [pc EXCEPT ![d] = "insert"]
            /\ local' = local

\* lines 156-178: insert the Purchase row.  The insert is refused by a storage
\* error or by UNIQUE (stripe_payment_intent_id); both surface as purchaseError.
InsertPurchase(d) ==
  /\ pc[d] = "insert"
  /\ UNCHANGED <<minting, redemption, apart>>
  /\ UNCHANGED <<artworks, download_tokens, emailLog, mintQueue, mintJobs, ledger, response>>
  /\ \E ok \in StepOutcomes :
       LET e == local[d].ev
           p == Event(e).pay
       IN  /\ Consume(ok)
           /\ IF ~ok \/ uniqueViolation(p)
                THEN /\ pc' = [pc EXCEPT ![d] = "mark"]
                     /\ local' = [local EXCEPT ![d].result =
                                    Fail(IF ok THEN ErrDuplicate ELSE ErrInsert)]
                     /\ UNCHANGED <<purchases, nextPurchaseId>>
                     /\ hist' = IF ok THEN [hist EXCEPT !.raceLost[d] = TRUE]
                                     ELSE [hist EXCEPT !.faulted[d] = TRUE]
                ELSE /\ purchases' = purchases \cup
                          {[id |-> nextPurchaseId,
                            artwork_id |-> Event(e).artworkId,
                            stripe_session_id |-> p,
                            stripe_payment_intent_id |-> p,
                            buyer_wallet |-> Event(e).wallet,
                            payment_status |-> "completed",
                            download_sent |-> FALSE,
                            nft_minted |-> FALSE,
                            nft_token_id |-> NoToken,
                            nft_tx_hash |-> NoTx]}
                     /\ nextPurchaseId' = nextPurchaseId + 1
                     /\ pc' = [pc EXCEPT ![d] = "increment"]
                     /\ local' = [local EXCEPT ![d].purchaseId = nextPurchaseId]
                     /\ hist' = Effect(hist, d, "purchase")

\* lines 180-188: rpc increment_artwork_editions.  The function returns VOID:
\* an UPDATE that matches no row (sold out) is not an error.
IncrementEditions(d) ==
  /\ pc[d] = "increment"
  /\ UNCHANGED <<minting, redemption, apart>>
  /\ UNCHANGED <<purchases, nextPurchaseId, download_tokens, emailLog, mintQueue, mintJobs,
                 ledger, response>>
  /\ \E ok \in StepOutcomes :
       LET e == local[d].ev
           a == Event(e).artworkId
       IN  /\ Consume(ok)
           /\ IF ~ok
                THEN /\ pc' = [pc EXCEPT ![d] = "rollback"]
                     /\ local' = [local EXCEPT ![d].result = Fail(ErrEditions)]
                     /\ artworks' = artworks
                     /\ hist' = [hist EXCEPT !.faulted[d] = TRUE]
                ELSE /\ artworks' = increment_artwork_editions(a)
                     /\ pc' = [pc EXCEPT ![d] = "token"]
                     /\ local' = local
                     /\ hist' = IF artworks'[a] # artworks[a]
                                  THEN [Effect(hist, d, "increment") EXCEPT
                                          !.incCount[Event(e).pay] = @ + 1]
                                  ELSE [hist EXCEPT !.soldOutAt[d] = TRUE]

\* lines 190-206: insert the DownloadToken
CreateToken(d) ==
  /\ pc[d] = "token"
  /\ UNCHANGED <<minting, redemption, apart>>
  /\ UNCHANGED <<artworks, purchases, nextPurchaseId, emailLog, mintQueue, mintJobs,
                 ledger, response>>
  /\ \E ok \in StepOutcomes :
       /\ Consume(ok)
       /\ IF ~ok
            THEN /\ pc' = [pc EXCEPT ![d] = "rollback"]
                 /\ local' = [local EXCEPT ![d].result = Fail(ErrToken)]
                 /\ download_tokens' = download_tokens
                 /\ hist' = [hist EXCEPT !.faulted[d] = TRUE]
            ELSE /\ download_tokens' = download_tokens \cup
                      {[purchase_id |-> local[d].purchaseId,
                        download_count |-> 0,
                        max_downloads |-> 3,
                        expires_at |-> now + 7]}
                 /\ pc' = [pc EXCEPT ![d] = "artwork"]
                 /\ local' = local
                 /\ hist' = Effect(hist, d, "token")

\* lines 208-220: read the artwork (token_id included) for the email and the
\* mint job
SelectArtwork(d) ==
  /\ pc[d] = "artwork"
  /\ UNCHANGED <<minting, redemption, apart>>
  /\ UNCHANGED <<db, ledger, response>>
  /\ \E ok \in StepOutcomes :
       /\ Consume(ok)
       /\ IF ~ok
            THEN /\ pc' = [pc EXCEPT ![d] = "rollback"]
                 /\ local' = [local EXCEPT ![d].result = Fail(ErrArtwork)]
                 /\ hist' = [hist EXCEPT !.faulted[d] = TRUE]
            ELSE /\ pc' = [pc EXCEPT ![d] = "email"]
                 /\ local' = [local EXCEPT ![d].token_id =
                                artworks[Event(local[d].ev).artworkId].token_id]
                 /\ hist' = hist

\* lines 222-254: send the email; when it was not sent go on to the mint job
SendEmail(d) ==
  /\ pc[d] = "email"
  /\ UNCHANGED <<minting, redemption, apart>>
  /\ UNCHANGED <<artworks, purchases, nextPurchaseId, download_tokens, ledger, response>>
  /\ \E outs \in [1..maxRetries -> BOOLEAN] :
       LET e == local[d].ev
           sent == sendDownloadEmailWithRetry(outs, 1)
           hst == [hist EXCEPT !.emailOutcome[d] =
                     IF \E i \in 1..maxRetries : outs[i] THEN "sent" ELSE "failed"]
       IN  /\ sent \/ faultsLeft > 0
           /\ Consume(sent)
           /\ emailLog' = [emailLog EXCEPT ![Event(e).pay] = @ + 1]
           /\ IF sent
                THEN /\ pc' = [pc EXCEPT ![d] = "sent"]
                     /\ UNCHANGED <<local, mintQueue, mintJobs>>
                     /\ hist' = Effect(hst, d, "email")
                ELSE /\ mintQueue' = queueNFTMinting(e, local[d].purchaseId)
                     /\ mintJobs' = armMintJob(d)
                     /\ pc' = [pc EXCEPT ![d] = "mark"]
                     /\ local' = [local EXCEPT ![d].result = Ok]
                     /\ hist' = [(IF Event(e).wallet
                                     THEN Effect(Effect(hst, d, "email"), d, "mint")
                                     ELSE Effect(hst, d, "email"))
                                   EXCEPT !.faulted[d] = TRUE]

\* lines 231-254: set download_sent, queue the mint job, return success
MarkDownloadSent(d) ==
  /\ pc[d] = "sent"
  /\ UNCHANGED <<minting, redemption, apart>>
  /\ UNCHANGED <<artworks, nextPurchaseId, download_tokens, emailLog, ledger,
                 response, faultsLeft>>
  /\ LET e == local[d].ev
     IN  /\ purchases' = {IF r.id = local[d].purchaseId
                            THEN [r EXCEPT !.download_sent = TRUE] ELSE r :
                          r \in purchases}
         /\ mintQueue' = queueNFTMinting(e, local[d].purchaseId)
         /\ mintJobs' = armMintJob(d)
         /\ pc' = [pc EXCEPT ![d] = "mark"]
         /\ local' = [local EXCEPT ![d].result = Ok]
         /\ hist' = IF Event(e).wallet THEN Effect(hist, d, "mint") ELSE hist

\* lines 256-268 and 295-301: delete the Purchase (its tokens go with it,
\* ON DELETE CASCADE) and turn the thrown error into a failure result
Rollback(d) ==
  /\ pc[d] = "rollback"
  /\ UNCHANGED <<minting, redemption, apart>>
  /\ UNCHANGED <<artworks, nextPurchaseId, emailLog, mintQueue, mintJobs, ledger, response,
                 faultsLeft, hist>>
  /\ purchases' = {r \in purchases : r.id # local[d].purchaseId}
  /\ download_tokens' = {t \in download_tokens : t.purchase_id # local[d].purchaseId}
  /\ pc' = [pc EXCEPT ![d] = "mark"]
  /\ local' = local

(***************************************************************************)
(* processEventWithTransaction, payment_intent.payment_failed,             *)
(* lines 273-293.                                                          *)
(***************************************************************************)
\* variant: an update without the filter on the payment intent
markFailed_all(p) == {[r EXCEPT !.payment_status = "failed"] : r \in purchases}

\* lines 277-280: update purchases set payment_status = 'failed'
\* where stripe_payment_intent_id = paymentIntent.id
markFailed(p) ==
  {IF r.stripe_payment_intent_id = p
     THEN [r EXCEPT !.payment_status = "failed"] ELSE r : r \in purchases}

PaymentFailed(d) ==
  /\ pc[d] = "payfail"
  /\ UNCHANGED <<minting, redemption, apart>>
  /\ UNCHANGED <<artworks, nextPurchaseId, download_tokens, emailLog, mintQueue, mintJobs,
                 ledger, response, faultsLeft, hist>>
  /\ purchases' = markFailed(Event(local[d].ev).pay)
  /\ pc' = [pc EXCEPT ![d] = "mark"]
  /\ local' = [local EXCEPT ![d].result = Ok]

(***************************************************************************)
(* markEventProcessed, lines 99-120, and the response, line 60.            *)
(***************************************************************************)
\* lines 100-104: the cache is written first
MarkCache(d) ==
  /\ pc[d] = "mark"
  /\ UNCHANGED <<minting, redemption, apart>>
  /\ UNCHANGED <<db, webhook_events, response, faultsLeft, hist, local>>
  /\ processedEvents' = [processedEvents EXCEPT ![local[d].key] = local[d].result]
  /\ pc' = [pc EXCEPT ![d] = "markdb"]

\* variant: a failed durable write that reaches the caller
durableWriteThrows_uncaught(ok) == ~ok

\* lines 107-119: the insert is awaited inside try/catch and its outcome is
\* only logged: nothing is thrown to POST
durableWriteThrows(ok) == FALSE

\* lines 106-119: then the durable store; a failed insert is only logged.
\* A row already stored for the key is kept (event_id identifies the row).
MarkDurable(d) ==
  /\ pc[d] = "markdb"
  /\ UNCHANGED <<minting, redemption, apart>>
  /\ UNCHANGED <<db, processedEvents>>
  /\ \E ok \in StepOutcomes :
       /\ Consume(ok)
       /\ webhook_events' =
            IF ok /\ webhook_events[local[d].key] = NoResult
              THEN [webhook_events EXCEPT ![local[d].key] = local[d].result]
              ELSE webhook_events
       /\ response' = [response EXCEPT ![d] =
                         IF durableWriteThrows(ok)
                           THEN [status |-> 500, body |-> NoResult]
                           ELSE [status |-> 200, body |-> local[d].result]]
  /\ pc' = [pc EXCEPT ![d] = "done"]
  /\ hist' = RecordFirst(hist, local[d].ev, local[d].result)
  /\ local' = [local EXCEPT ![d].result = NoResult, ![d].purchaseId = 0,
                            ![d].token_id = NoToken]

\* lines 13-20: the hourly sweep drops an entry older than CACHE_TTL (24 hours);
\* a delivery lasts seconds, so none that wrote or read the entry is still running
Sweep(k) ==
  /\ InFlight = {}
  /\ UNCHANGED <<minting, redemption, apart>>
  /\ processedEvents[k] # NoResult
  /\ processedEvents' = [processedEvents EXCEPT ![k] = NoResult]
  /\ UNCHANGED <<db, webhook_events, pc, local, response, faultsLeft, hist>>

(***************************************************************************)
(* The mint job of queueNFTMinting, lines 359-414, one action per awaited  *)
(* call, with ContractService (createToken, mintToken) and the contract    *)
(* ImNotArtNFT.sol behind it.                                              *)
(***************************************************************************)
handler == <<artworks, purchases, nextPurchaseId, download_tokens, emailLog,
             mintQueue, ledger, pc, local, response>>

\* params.artworkId: the artwork_id the Purchase of the job was inserted with
artworkOf(id) == CHOOSE a \in Artworks : \E r \in purchases : r.id = id /\ r.artwork_id = a

\* variant: a job that may run as soon as the Purchase row exists
timerFired_inline(id) ==
  /\ mintJobs[id].pc \in {"none", "queued"}
  /\ \E r \in purchases : r.id = id

\* setTimeout(..., 1000): the callback runs once queueNFTMinting armed it
timerFired(id) == mintJobs[id].pc = "queued"

\* what a call of ContractService.createToken / mintNFTWithGasEstimation can
\* come to, as the job sees it: the transaction is confirmed and the call
\* returns; nothing is sent (gas price check); the transaction is sent and
\* fails; or the transaction is mined but the call throws while it handles
\* the receipt (supabase.ts lines 201-228 and 289-298).  The job is written
\* against this interface; which of the outcomes the ContractService of
\* lib/supabase.ts produces is modelled step by step further down.
TxOutcomes == {"confirmed", "notSent", "failed", "thrown"}

\* the hash of the n-th mintToken transaction sent for Purchase id
txHashOf(id, n) == 10 * id + n

\* lines 363-370: the artwork row of the job has no token_id, createToken
MintCreateToken(id) ==
  /\ timerFired(id)
  /\ mintJobs[id].token_id = NoToken
  /\ UNCHANGED <<handler, nft_minting_errors, redemption, apart, faultsLeft>>
  /\ \E out \in TxOutcomes :
       LET a == artworkOf(id)
           t == chain.tokenIdCounter
           sent == [chain EXCEPT !.createTx[a] = @ + 1]
       IN  CASE out = "confirmed" ->
                  /\ chain' = [sent EXCEPT !.tokenIdCounter = @ + 1,
                                           !.tokenInfo[t] =
                                              [created |-> TRUE,
                                               maxSupply |-> artworks[a].max_editions,
                                               currentSupply |-> 0]]
                  /\ mintJobs' = [mintJobs EXCEPT ![id] =
                                    [pc |-> "persist", token_id |-> t,
                                     txHash |-> NoTx]]
                  /\ hist' = hist
             [] out = "notSent" ->
                  /\ chain' = chain
                  /\ mintJobs' = [mintJobs EXCEPT ![id].pc = "error"]
                  /\ hist' = [hist EXCEPT !.mintFault = TRUE]
             [] out = "failed" ->
                  /\ chain' = sent
                  /\ mintJobs' = [mintJobs EXCEPT ![id].pc = "error"]
                  /\ hist' = [hist EXCEPT !.mintFault = TRUE]
             [] out = "thrown" ->
                  /\ chain' = [sent EXCEPT !.tokenIdCounter = @ + 1,
                                           !.tokenInfo[t] =
                                              [created |-> TRUE,
                                               maxSupply |-> artworks[a].max_editions,
                                               currentSupply |-> 0]]
                  /\ mintJobs' = [mintJobs EXCEPT ![id].pc = "error"]
                  /\ hist' = [hist EXCEPT !.mintFault = TRUE]

\* lines 372-378: store the new token id on the artwork; the outcome of the
\* update is not inspected
MintPersistToken(id) ==
  /\ mintJobs[id].pc = "persist"
  /\ UNCHANGED <<purchases, nextPurchaseId, download_tokens, emailLog, mintQueue,
                 ledger, pc, local, response, minting, redemption, apart>>
  /\ \E ok \in StepOutcomes :
       /\ Consume(ok)
       /\ artworks' = IF ok
                        THEN [artworks EXCEPT ![artworkOf(id)].token_id =
                                mintJobs[id].token_id]
                        ELSE artworks
       /\ hist' = IF ok THEN hist ELSE [hist EXCEPT !.mintFault = TRUE]
  /\ mintJobs' = [mintJobs EXCEPT ![id].pc = "mint"]

\* ImNotArtNFT.mintToken: require(token exists), require(supply left)
canMint(t) ==
  /\ chain.tokenInfo[t].created
  /\ chain.tokenInfo[t].currentSupply + 1 <= chain.tokenInfo[t].maxSupply

\* variant: a job that submits the mint again after a failure
mintFailed_resubmits(job) == [job EXCEPT !.pc = "mint"]

\* lines 383-387 and 401: mintToken is called once; when it throws the job
\* goes to its catch block
mintFailed(job) == [job EXCEPT !.pc = "error"]

\* lines 382-387: mintToken(params.artwork.token_id, buyer, 1).  When gas
\* estimation fails the fallback envelope is used (supabase.ts lines 362-376),
\* so a mint the contract refuses is still sent, and reverts.
MintToken(id) ==
  /\ \/ mintJobs[id].pc = "mint"
     \/ timerFired(id) /\ mintJobs[id].token_id # NoToken
  /\ UNCHANGED <<handler, nft_minting_errors, redemption, apart, faultsLeft>>
  /\ \E out \in TxOutcomes :
       LET t == mintJobs[id].token_id
           sent == [chain EXCEPT !.mintTx[id] = @ + 1]
           minted == [sent EXCEPT !.tokenInfo[t].currentSupply = @ + 1,
                                  !.balance[id] = @ + 1]
       IN  CASE out = "confirmed" /\ canMint(t) ->
                  /\ chain' = minted
                  /\ mintJobs' = [mintJobs EXCEPT ![id].pc = "record",
                                    ![id].txHash = txHashOf(id, sent.mintTx[id])]
                  /\ hist' = hist
             [] out = "thrown" /\ canMint(t) ->
                  /\ chain' = minted
                  /\ mintJobs' = [mintJobs EXCEPT ![id] = mintFailed(@)]
                  /\ hist' = [hist EXCEPT !.mintFault = TRUE]
             [] out = "notSent" ->
                  /\ chain' = chain
                  /\ mintJobs' = [mintJobs EXCEPT ![id] = mintFailed(@)]
                  /\ hist' = [hist EXCEPT !.mintFault = TRUE]
             [] OTHER ->      \* sent and failed, or reverted by the contract
                  /\ chain' = sent
                  /\ mintJobs' = [mintJobs EXCEPT ![id] = mintFailed(@)]
                  /\ hist' = [hist EXCEPT !.mintFault = TRUE]

\* variant: an update that also rewrites payment_status
recordMint_resetsStatus(id) ==
  {IF r.id = id
     THEN [r EXCEPT !.nft_minted = TRUE, !.nft_token_id = mintJobs[id].token_id,
                    !.nft_tx_hash = mintJobs[id].txHash,
                    !.payment_status = "pending"]
     ELSE r : r \in purchases}

\* lines 390-397: update purchases set nft_minted, nft_token_id, nft_tx_hash
\* where id = purchaseId
recordMint(id) ==
  {IF r.id = id
     THEN [r EXCEPT !.nft_minted = TRUE, !.nft_token_id = mintJobs[id].token_id,
                    !.nft_tx_hash = mintJobs[id].txHash]
     ELSE r : r \in purchases}

\* lines 389-399: record the mint on the Purchase; the outcome of the update
\* is not inspected
MintRecord(id) ==
  /\ mintJobs[id].pc = "record"
  /\ UNCHANGED <<artworks, nextPurchaseId, download_tokens, emailLog, mintQueue,
                 ledger, pc, local, response, minting, redemption, apart>>
  /\ \E ok \in StepOutcomes :
       /\ Consume(ok)
       /\ purchases' = IF ok THEN recordMint(id) ELSE purchases
       /\ hist' = IF ok THEN hist ELSE [hist EXCEPT !.mintFault = TRUE]
  /\ mintJobs' = [mintJobs EXCEPT ![id].pc = "minted"]

\* lines 401-413: the catch block stores the error for manual review; the
\* outcome of the insert is not inspected
MintError(id) ==
  /\ mintJobs[id].pc = "error"
  /\ UNCHANGED <<handler, chain, redemption, apart>>
  /\ \E ok \in StepOutcomes :
       /\ Consume(ok)
       /\ nft_minting_errors' = IF ok THEN nft_minting_errors \cup {id}
                                      ELSE nft_minting_errors
       /\ hist' = IF ok THEN hist ELSE [hist EXCEPT !.mintFault = TRUE]
  /\ mintJobs' = [mintJobs EXCEPT ![id].pc = "failed"]

Next ==
  \/ \E d \in Deliveries, e \in EventIds, sig \in BOOLEAN :
        \E hdr \in HeadersOf(e) : Receive(d, e, sig, hdr)
  \/ \E d \in Deliveries : Lookup(d)
  \/ \E d \in Deliveries : ExistsCheck(d)
  \/ \E d \in Deliveries : InsertPurchase(d)
  \/ \E d \in Deliveries : IncrementEditions(d)
  \/ \E d \in Deliveries : CreateToken(d)
  \/ \E d \in Deliveries : SelectArtwork(d)
  \/ \E d \in Deliveries : SendEmail(d)
  \/ \E d \in Deliveries : MarkDownloadSent(d)
  \/ \E d \in Deliveries : Rollback(d)
  \/ \E d \in Deliveries : PaymentFailed(d)
  \/ \E d \in Deliveries : MarkCache(d)
  \/ \E d \in Deliveries : MarkDurable(d)
  \/ \E k \in Keys : Sweep(k)

Spec == Init /\ [][Next]_vars

(***************************************************************************)
(* Download redemption, GET /api/download/[token] (unnamed/part_004).  A   *)
(* token value is identified by the Purchase it was issued for.            *)
(***************************************************************************)
\* variant: a redemption that does not look at the usage count
exhausted_never(t) == FALSE

\* line 40: downloadToken.download_count >= downloadToken.max_downloads
exhausted(t) == t.download_count >= t.max_downloads

\* variant: a redemption that does not look at the expiry time
expired_never(t) == FALSE

\* line 32: new Date(downloadToken.expires_at) < new Date()
expired(t) == t.expires_at < now

\* lines 12-22: the row of the token joined with its Purchase (inner join)
tokenRows(tok) ==
  {t \in download_tokens : /\ t.purchase_id = tok
                           /\ \E r \in purchases : r.id = tok}

\* token values a request may carry: the one issued for Purchase 1 and one
\* that was never issued
RequestTokens == {1, 2}

\* the buyer learns the token value from the download email only
tokenKnown(tok) ==
  tokenRows(tok) # {} =>
    \E d \in Deliveries : /\ hist.emailOutcome[d] = "sent"
                          /\ (local[d].purchaseId = tok \/ pc[d] = "done")

RedeemInFlight == {r \in Requests : dlPc[r] \notin {"idle", "done"}}

\* lines 9-45: read the token and decide
Redeem(r, tok) ==
  /\ dlPc[r] = "idle"
  /\ \A c \in Requests : c < r => dlPc[c] # "idle"
  /\ Cardinality(RedeemInFlight) < MaxInFlight
  /\ tokenKnown(tok)
  /\ UNCHANGED <<handler, mintJobs, minting, now, apart>>
  /\ \E ok \in StepOutcomes :
       /\ Consume(ok)
       /\ IF ~ok \/ tokenRows(tok) = {}
            THEN /\ dlPc' = [dlPc EXCEPT ![r] = "done"]
                 /\ dlResponse' = [dlResponse EXCEPT ![r] = 404]
                 /\ dlLocal' = [dlLocal EXCEPT ![r].token = tok]
                 /\ hist' = IF ok THEN hist ELSE [hist EXCEPT !.dlFault = TRUE]
            ELSE LET t == CHOOSE t \in tokenRows(tok) : TRUE
                 IN  /\ hist' = hist
                     /\ IF expired(t)
                          THEN /\ dlPc' = [dlPc EXCEPT ![r] = "done"]
                               /\ dlResponse' = [dlResponse EXCEPT ![r] = 410]
                               /\ dlLocal' = [dlLocal EXCEPT ![r].token = tok]
                          ELSE IF exhausted(t)
                          THEN /\ dlPc' = [dlPc EXCEPT ![r] = "done"]
                               /\ dlResponse' = [dlResponse EXCEPT ![r] = 429]
                               /\ dlLocal' = [dlLocal EXCEPT ![r].token = tok]
                          ELSE /\ dlPc' = [dlPc EXCEPT ![r] = "update"]
                               /\ dlResponse' = dlResponse
                               /\ dlLocal' = [dlLocal EXCEPT ![r] =
                                                [token |-> tok,
                                                 download_count |-> t.download_count]]

\* lines 47-64: write download_count read earlier plus one (the outcome of the
\* update is not inspected) and redirect to the asset
RedeemUpdate(r) ==
  /\ dlPc[r] = "update"
  /\ UNCHANGED <<artworks, purchases, nextPurchaseId, emailLog, mintQueue, ledger,
                 pc, local, response, mintJobs, minting, now, apart>>
  /\ \E ok \in StepOutcomes :
       /\ Consume(ok)
       /\ download_tokens' =
            IF ok
              THEN {IF t.purchase_id = dlLocal[r].token
                      THEN [t EXCEPT !.download_count = dlLocal[r].download_count + 1]
                      ELSE t : t \in download_tokens}
              ELSE download_tokens
       /\ hist' = IF ok THEN hist ELSE [hist EXCEPT !.dlFault = TRUE]
  /\ dlPc' = [dlPc EXCEPT ![r] = "done"]
  /\ dlResponse' = [dlResponse EXCEPT ![r] = 307]
  /\ dlLocal' = [dlLocal EXCEPT ![r].download_count = 0]

\* a day passes
Tick ==
  /\ now < MaxClock
  /\ now' = now + 1
  /\ UNCHANGED <<handler, mintJobs, minting, apart, dlPc, dlLocal, dlResponse,
                 faultsLeft, hist>>

\* one delivery of one sale (event 2, no wallet) and the redemptions of its
\* token
NextDownload ==
  \/ Receive(1, 2, TRUE, NoHeader)
  \/ \E d \in Deliveries : Lookup(d)
  \/ \E d \in Deliveries : ExistsCheck(d)
  \/ \E d \in Deliveries : InsertPurchase(d)
  \/ \E d \in Deliveries : IncrementEditions(d)
  \/ \E d \in Deliveries : CreateToken(d)
  \/ \E d \in Deliveries : SelectArtwork(d)
  \/ \E d \in Deliveries : SendEmail(d)
  \/ \E d \in Deliveries : MarkDownloadSent(d)
  \/ \E d \in Deliveries : Rollback(d)
  \/ \E d \in Deliveries : MarkCache(d)
  \/ \E d \in Deliveries : MarkDurable(d)
  \/ \E r \in Requests, tok \in RequestTokens : Redeem(r, tok)
  \/ \E r \in Requests : RedeemUpdate(r)
  \/ Tick

SpecDownload == Init /\ [][NextDownload]_vars

(***************************************************************************)
(* Sales of one artwork to buyers with wallets, and their mint jobs, when   *)
(* the storage and the mail transport do not fail.                         *)
(***************************************************************************)
NextMint ==
  \/ \E d \in Deliveries, e \in MintEvents : Receive(d, e, TRUE, NoHeader)
  \/ \E d \in Deliveries : Lookup(d)
  \/ \E d \in Deliveries : ExistsCheck(d)
  \/ \E d \in Deliveries : InsertPurchase(d)
  \/ \E d \in Deliveries : IncrementEditions(d)
  \/ \E d \in Deliveries : CreateToken(d)
  \/ \E d \in Deliveries : SelectArtwork(d)
  \/ \E d \in Deliveries : SendEmail(d)
  \/ \E d \in Deliveries : MarkDownloadSent(d)
  \/ \E d \in Deliveries : MarkCache(d)
  \/ \E d \in Deliveries : MarkDurable(d)
  \/ \E id \in PurchaseIds : MintCreateToken(id)
  \/ \E id \in PurchaseIds : MintPersistToken(id)
  \/ \E id \in PurchaseIds : MintToken(id)
  \/ \E id \in PurchaseIds : MintRecord(id)
  \/ \E id \in PurchaseIds : MintError(id)

\* the storage and the mail transport work; transactions may still fail
InitMint == Start /\ faultsLeft = 0

SpecMint == InitMint /\ [][NextMint]_vars

\* three sales of one artwork with editions for each of them, one delivery
\* per sale, and their mint jobs
NextSales ==
  \/ \E d \in 1..Len(SaleEvents) : Receive(d, SaleEvents[d], TRUE, NoHeader)
  \/ \E d \in Deliveries : Lookup(d)
  \/ \E d \in Deliveries : ExistsCheck(d)
  \/ \E d \in Deliveries : InsertPurchase(d)
  \/ \E d \in Deliveries : IncrementEditions(d)
  \/ \E d \in Deliveries : CreateToken(d)
  \/ \E d \in Deliveries : SelectArtwork(d)
  \/ \E d \in Deliveries : SendEmail(d)
  \/ \E d \in Deliveries : MarkDownloadSent(d)
  \/ \E d \in Deliveries : MarkCache(d)
  \/ \E d \in Deliveries : MarkDurable(d)
  \/ \E id \in PurchaseIds : MintCreateToken(id)
  \/ \E id \in PurchaseIds : MintPersistToken(id)
  \/ \E id \in PurchaseIds : MintToken(id)
  \/ \E id \in PurchaseIds : MintRecord(id)
  \/ \E id \in PurchaseIds : MintError(id)

InitSales == StartWith({Len(SaleEvents)}) /\ faultsLeft = 0

SpecSales == InitSales /\ [][NextSales]_vars

\* one delivery of one sale to a buyer with a wallet and its mint job, with
\* storage failures
NextMintLive ==
  \/ Receive(1, 1, TRUE, NoHeader)
  \/ \E d \in Deliveries : Lookup(d)
  \/ \E d \in Deliveries : ExistsCheck(d)
  \/ \E d \in Deliveries : InsertPurchase(d)
  \/ \E d \in Deliveries : IncrementEditions(d)
  \/ \E d \in Deliveries : CreateToken(d)
  \/ \E d \in Deliveries : SelectArtwork(d)
  \/ \E d \in Deliveries : SendEmail(d)
  \/ \E d \in Deliveries : MarkDownloadSent(d)
  \/ \E d \in Deliveries : Rollback(d)
  \/ \E d \in Deliveries : MarkCache(d)
  \/ \E d \in Deliveries : MarkDurable(d)
  \/ \E id \in PurchaseIds : MintCreateToken(id)
  \/ \E id \in PurchaseIds : MintPersistToken(id)
  \/ \E id \in PurchaseIds : MintToken(id)
  \/ \E id \in PurchaseIds : MintRecord(id)
  \/ \E id \in PurchaseIds : MintError(id)

\* every awaited storage, transport and chain call of a handler or a job
\* settles, and the timer of an armed job fires
FairMint ==
  /\ \A d \in Deliveries :
       /\ WF_vars(Lookup(d)) /\ WF_vars(ExistsCheck(d)) /\ WF_vars(InsertPurchase(d))
       /\ WF_vars(IncrementEditions(d)) /\ WF_vars(CreateToken(d))
       /\ WF_vars(SelectArtwork(d)) /\ WF_vars(SendEmail(d))
       /\ WF_vars(MarkDownloadSent(d)) /\ WF_vars(Rollback(d))
       /\ WF_vars(MarkCache(d)) /\ WF_vars(MarkDurable(d))
  /\ \A id \in PurchaseIds :
       /\ WF_vars(MintCreateToken(id)) /\ WF_vars(MintPersistToken(id))
       /\ WF_vars(MintToken(id)) /\ WF_vars(MintRecord(id))
       /\ WF_vars(MintError(id))

SpecMintLive == Init /\ [][NextMintLive]_vars /\ FairMint

(***************************************************************************)
(* The email sender, sendDownloadEmailWithRetry (route.ts, lines 321-344), *)
(* one action per await, around sendDownloadEmail (lib/email.ts).          *)
(***************************************************************************)
\* lib/email.ts, lines 84-97: true when the transport accepted the message,
\* false when it threw
sendDownloadEmail(transportOk) == IF transportOk THEN "true" ELSE "false"

\* what one awaited attempt can come to: a value sendDownloadEmail returns, or
\* an error thrown by the callee
AttemptOutcomes == {sendDownloadEmail(t) : t \in BOOLEAN} \cup {"throw"}

\* variant: a loop that goes on after a successful attempt
stopsOnSuccess_never(result) == FALSE

\* line 327: if (result) return true
stopsOnSuccess(result) == result = "true"

\* variant: an attempt outside any try block
catches_nothing(out) == FALSE

\* lines 325 and 328: try { ... } catch (error: any) takes every thrown error
catches(out) == TRUE

\* line 334: Math.pow(2, attempt) * 1000
backoffMs(attempt) == (2 ^ attempt) * 1000

\* the for statement, line 324: attempt++ and the test attempt <= maxRetries;
\* lines 340-341 after the loop
nextAttempt(m) ==
  IF m.attempt + 1 <= maxRetries
    THEN [m EXCEPT !.attempt = @ + 1, !.pc = "try"]
    ELSE [m EXCEPT !.attempt = @ + 1, !.pc = "returned", !.ret = "false"]

others == <<handler, mintJobs, minting, redemption, faultsLeft, hist, wm, svc>>

\* the caller awaits sendDownloadEmailWithRetry(params): attempt = 1
MailCall(c) ==
  /\ mail[c].pc = "idle"
  /\ \A b \in Calls : b < c => mail[b].pc # "idle"
  /\ mail' = [mail EXCEPT ![c] = [NoCall EXCEPT !.pc = "try", !.attempt = 1]]
  /\ UNCHANGED others

\* lines 325-337: one awaited sendDownloadEmail and what follows it up to the
\* next await
MailAttempt(c) ==
  /\ mail[c].pc = "try"
  /\ UNCHANGED others
  /\ \E out \in AttemptOutcomes :
       LET m == [mail[c] EXCEPT !.log = Append(@, out)]
       IN  mail' = [mail EXCEPT ![c] =
             IF out = "throw"
               THEN IF ~catches(out)
                      THEN [m EXCEPT !.pc = "thrown"]
                    ELSE IF m.attempt < maxRetries
                      THEN [m EXCEPT !.pc = "backoff",
                                     !.waits = Append(@, backoffMs(m.attempt))]
                    ELSE nextAttempt(m)
             ELSE IF stopsOnSuccess(out)
               THEN [m EXCEPT !.pc = "returned", !.ret = "true"]
             ELSE nextAttempt(m)]

\* line 334: the backoff timer fires
MailBackoff(c) ==
  /\ mail[c].pc = "backoff"
  /\ UNCHANGED others
  /\ mail' = [mail EXCEPT ![c] = nextAttempt(mail[c])]

NextEmail ==
  \/ \E c \in Calls : MailCall(c)
  \/ \E c \in Calls : MailAttempt(c)
  \/ \E c \in Calls : MailBackoff(c)

\* an awaited send settles and a timer fires: the event loop runs every
\* continuation that is ready
FairEmail == \A c \in Calls : WF_vars(MailAttempt(c)) /\ WF_vars(MailBackoff(c))

SpecEmail == Init /\ [][NextEmail]_vars /\ FairEmail

(***************************************************************************)
(* ContractService (lib/supabase.ts, lines 116-446) and TransactionMonitor  *)
(* (lines 470-514): one call of createToken or mintNFTWithGasEstimation,    *)
(* one action per await.  Amounts are in gwei.                              *)
(***************************************************************************)
MAX_GAS_PRICE == 100               \* line 123: parseUnits('100', 'gwei')

Methods == {"createToken", "mintToken"}

\* what estimateGas may return, and the fee data of the network; 0 stands for
\* null (a field the network does not report), which || treats like 0n
GasUnits  == {21000, 100000}
GasPrices == {0, 90, 100, 120}
MaxFees   == {0, 100, 181}
PrioFees  == {0, 3}
FeeDatas  == [gasPrice : GasPrices, maxFeePerGas : MaxFees,
              maxPriorityFeePerGas : PrioFees]
NoFeeData == [gasPrice |-> 0, maxFeePerGas |-> 0, maxPriorityFeePerGas |-> 0]

\* how the two awaits of estimateGasWithBuffer can end
Estimations ==
  [how : {"ok"}, estimatedGas : GasUnits, feeData : FeeDatas] \cup
  [how : {"estimateGasThrows", "getFeeDataThrows"}, estimatedGas : {0},
   feeData : {NoFeeData}]

\* a || b on bigint
OrElse(a, b) == IF a # 0 THEN a ELSE b

\* variant: a fallback that offers the ceiling as its price
fallbackEnvelope_atCeiling ==
  [estimatedGas |-> 500000, gasPrice |-> MAX_GAS_PRICE,
   maxFeePerGas |-> MAX_GAS_PRICE, maxPriorityFeePerGas |-> 1]

\* lines 365-375: the fallback values
fallbackEnvelope ==
  [estimatedGas |-> 500000, gasPrice |-> 10, maxFeePerGas |-> 10,
   maxPriorityFeePerGas |-> 1]

\* estimateGasWithBuffer, lines 336-377
estimateGasWithBuffer(e) ==
  IF e.how = "ok"
    THEN LET gasPrice == OrElse(e.feeData.gasPrice, 10)
         IN  [estimatedGas |-> (e.estimatedGas * 12) \div 10,   \* GAS_BUFFER 1.2
              gasPrice |-> gasPrice,
              maxFeePerGas |-> OrElse(e.feeData.maxFeePerGas, gasPrice),
              maxPriorityFeePerGas |-> OrElse(e.feeData.maxPriorityFeePerGas, 1)]
    ELSE fallbackEnvelope

\* variant: a check that submits after the reduction whatever it gave
mintPriceCheck_noSecondTest(g) ==
  IF g.gasPrice > MAX_GAS_PRICE
    THEN LET prio == g.maxPriorityFeePerGas \div 2
             h == [g EXCEPT !.maxPriorityFeePerGas = prio,
                            !.maxFeePerGas = g.gasPrice + prio]
         IN  [gas |-> h, reduced |-> 1, ok |-> TRUE]
    ELSE [gas |-> g, reduced |-> 0, ok |-> TRUE]

\* lines 258-267: the price check of mintNFTWithGasEstimation, with one
\* reduction of the priority fee
mintPriceCheck(g) ==
  IF g.gasPrice > MAX_GAS_PRICE
    THEN LET prio == g.maxPriorityFeePerGas \div 2
             h == [g EXCEPT !.maxPriorityFeePerGas = prio,
                            !.maxFeePerGas = g.gasPrice + prio]
         IN  [gas |-> h, reduced |-> 1, ok |-> ~(h.maxFeePerGas > MAX_GAS_PRICE)]
    ELSE [gas |-> g, reduced |-> 0, ok |-> TRUE]

\* lines 178-181: the price check of createToken
createPriceCheck(g) ==
  [gas |-> g, reduced |-> 0, ok |-> ~(g.gasPrice > MAX_GAS_PRICE)]

\* how provider.waitForTransaction(txHash, 1) can end: a receipt with status
\* 1, a receipt with status 0, null, or a rejection
WaitOutcomes == {"success", "revert", "null", "error"}

\* TransactionMonitor.monitorTransaction, lines 479-509: the status returned
monitorTransaction(w) ==
  CASE w = "success" -> "confirmed"
    [] w = "revert"  -> "failed"
    [] w = "null"    -> "pending"
    [] w = "error"   -> "failed"

\* the event fragments of CONTRACT_ABI, lines 80-81
AbiEvents ==
  {[name |-> "TokenCreated", types |-> <<"uint256", "address">>],
   [name |-> "TokenMinted", types |-> <<"uint256", "address", "uint256">>]}

\* ImNotArtNFT.createToken, line 56: the log of emit TokenCreated(tokenId,
\* artist, maxSupply, metadataURI)
createLogs(t) ==
  <<[name |-> "TokenCreated",
     types |-> <<"uint256", "address", "uint256", "string">>,
     args |-> <<t>>]>>

\* interface.parseLog: the log is decoded by the fragment with its signature
\* (name and parameter types), null when the interface has none
NoParsed == [name |-> "null", args |-> <<>>]
parseLog(log) ==
  IF \E f \in AbiEvents : f.name = log.name /\ f.types = log.types
    THEN [name |-> log.name, args |-> log.args]
    ELSE NoParsed

\* lines 209-228: the token id of the first log parsed as TokenCreated;
\* NoToken when there is none and createToken throws
tokenIdOf(logs) ==
  LET found == {i \in 1..Len(logs) : parseLog(logs[i]).name = "TokenCreated"}
  IN  IF found = {} THEN NoToken
      ELSE parseLog(logs[CHOOSE i \in found : \A j \in found : i <= j]).args[1]

\* the catch blocks, lines 236-240 and 311-315: the error is rethrown
throws(c, error) == [c EXCEPT !.pc = "thrown", !.err = error]

svcFrame == <<handler, mintJobs, minting, redemption, faultsLeft, hist, mail, wm>>

\* a caller awaits createToken or mintNFTWithGasEstimation
SvcCall(m) ==
  /\ svc.pc \in {"idle", "returned", "thrown"}
  /\ svc' = [NoService EXCEPT !.pc = "estimate", !.method = m]
  /\ UNCHANGED svcFrame

\* lines 171-174 and 252-255: await estimateGasWithBuffer
SvcEstimate ==
  /\ svc.pc = "estimate"
  /\ UNCHANGED svcFrame
  /\ \E e \in Estimations :
       svc' = [svc EXCEPT !.pc = "check", !.gas = estimateGasWithBuffer(e),
                          !.estimated = e.how]

\* the price check, then up to the await of the contract method
SvcCheck ==
  /\ svc.pc = "check"
  /\ UNCHANGED svcFrame
  /\ LET c == IF svc.method = "mintToken" THEN mintPriceCheck(svc.gas)
                                          ELSE createPriceCheck(svc.gas)
         d == [svc EXCEPT !.gas = c.gas, !.reduced = c.reduced,
                          !.atCheck = svc.gas]
     IN  svc' = IF c.ok THEN [d EXCEPT !.pc = "send"]
                        ELSE throws(d, "Gas price too high")

\* lines 184-193 and 270-279: the transaction is submitted with the
\* estimate, or the submission is rejected (funds, nonce)
SvcSend ==
  /\ svc.pc = "send"
  /\ UNCHANGED svcFrame
  /\ \E ok \in BOOLEAN :
       svc' = IF ok
                THEN [svc EXCEPT
                        !.sent = Append(@, [method |-> svc.method,
                                            gasLimit |-> svc.gas.estimatedGas,
                                            maxFeePerGas |-> svc.gas.maxFeePerGas,
                                            maxPriorityFeePerGas |->
                                              svc.gas.maxPriorityFeePerGas]),
                        !.pc = IF svc.method = "mintToken" THEN "monitor"
                                                           ELSE "wait"]
                ELSE throws(svc, "send rejected")

\* lines 283-288: mintNFTWithGasEstimation awaits the monitor before the
\* receipt; lines 200-206: createToken awaits it after the receipt
SvcMonitor ==
  /\ svc.pc = "monitor"
  /\ UNCHANGED svcFrame
  /\ \E w \in WaitOutcomes :
       /\ svc.method = "createToken" => w # "revert"
       /\ LET c == [svc EXCEPT !.wait = w, !.status = monitorTransaction(w)]
          IN  svc' = IF c.status = "failed"
                       THEN throws(c, "Transaction failed")
                       ELSE [c EXCEPT !.pc = IF svc.method = "mintToken"
                                               THEN "wait" ELSE "result"]

\* lines 200 and 291: await tx.wait(CONFIRMATION_BLOCKS) returns the receipt
\* of the mined transaction, or rejects (revert, replaced transaction)
SvcWait ==
  /\ svc.pc = "wait"
  /\ UNCHANGED svcFrame
  /\ \E mined \in BOOLEAN :
       IF ~mined
         THEN svc' = throws(svc, "wait rejected")
       ELSE IF svc.method = "mintToken"
         THEN svc' = [svc EXCEPT !.pc = "result"]
       ELSE \E t \in TokenIds :
              svc' = [svc EXCEPT !.pc = "monitor", !.assigned = t,
                                 !.logs = createLogs(t)]

\* lines 208-232: createToken looks for the TokenCreated log; lines 293-298:
\* mintNFTWithGasEstimation builds its result with receipt.gasUsed.mul, and
\* gasUsed is a bigint, which has no method mul
SvcResult ==
  /\ svc.pc = "result"
  /\ UNCHANGED svcFrame
  /\ svc' = IF svc.method = "mintToken"
              THEN throws(svc, "TypeError")
            ELSE IF tokenIdOf(svc.logs) # NoToken
              THEN [svc EXCEPT !.pc = "returned", !.ret = tokenIdOf(svc.logs)]
            ELSE throws(svc, "TokenCreated event not found")

NextService ==
  \/ \E m \in Methods : SvcCall(m)
  \/ SvcEstimate
  \/ SvcCheck
  \/ SvcSend
  \/ SvcMonitor
  \/ SvcWait
  \/ SvcResult

SpecService == Init /\ [][NextService]_vars

(***************************************************************************)
(* WalletStateManager (lib/wallet-manager.ts): the user connects and        *)
(* disconnects, the wallet drops the connection, the reconnect timer fires. *)
(***************************************************************************)
MAX_RECONNECT_ATTEMPTS == 5

\* handleDisconnection, lines 301-323, with scheduleReconnect, lines 328-333:
\* reset the state, remove the saved connection and, when attempts are left,
\* replace the pending timer by a new one
handleDisconnection(w, by) ==
  [w EXCEPT !.connected = FALSE, !.connecting = FALSE, !.saved = FALSE,
            !.reconnectTimer =
               IF w.reconnectAttempts < MAX_RECONNECT_ATTEMPTS THEN by ELSE @]

\* connectWalletWithRetry up to its first await, lines 64-85
enterConnect(w, k) ==
  IF w.connected THEN [w EXCEPT ![k] = "idle"]
  ELSE IF w.connecting THEN [w EXCEPT ![k] = "polling"]
  ELSE [w EXCEPT !.connecting = TRUE, ![k] = "connectWallet"]

\* the call of caller k rejects: the user sees the error; the timer callback
\* catches it and, when attempts are left, arms the timer again (lines
\* 339-345)
rejected(w, k) ==
  IF k = "timer" /\ w.reconnectAttempts < MAX_RECONNECT_ATTEMPTS
    THEN [w EXCEPT ![k] = "idle", !.reconnectTimer = "retry"]
    ELSE [w EXCEPT ![k] = "idle"]

wmFrame == <<handler, mintJobs, minting, redemption, faultsLeft, hist, mail, svc>>

\* the user calls connectWalletWithRetry
WmUserConnect ==
  /\ wm.user = "idle"
  /\ wm' = enterConnect([wm EXCEPT !.quiet = FALSE], "user")
  /\ UNCHANGED wmFrame

\* lines 87-105: connectWallet settles.  On success the state is connected,
\* the attempts are reset and the connection is saved; on failure the call
\* waits and calls itself again while attempts are left, and throws otherwise.
WmConnectWallet(k) ==
  /\ wm[k] = "connectWallet"
  /\ UNCHANGED wmFrame
  /\ \E ok \in BOOLEAN :
       wm' = IF ok
               THEN [wm EXCEPT !.connected = TRUE, !.connecting = FALSE,
                               !.reconnectAttempts = 0, !.saved = TRUE,
                               ![k] = "idle"]
             ELSE IF wm.reconnectAttempts < MAX_RECONNECT_ATTEMPTS
               THEN [wm EXCEPT !.connecting = FALSE,
                               !.reconnectAttempts = @ + 1, ![k] = "delay"]
             ELSE rejected([wm EXCEPT !.connecting = FALSE], k)

\* line 98-99: the delay is over, the call calls itself
WmDelay(k) ==
  /\ wm[k] = "delay"
  /\ wm' = enterConnect(wm, k)
  /\ UNCHANGED wmFrame

\* lines 69-82: the call waited for a connection in progress, which is over
WmPoll(k) ==
  /\ wm[k] = "polling"
  /\ ~wm.connecting
  /\ wm' = IF wm.connected THEN [wm EXCEPT ![k] = "idle"] ELSE rejected(wm, k)
  /\ UNCHANGED wmFrame

\* lines 358-361 and 383-385: the wallet reports that it disconnected
WmWalletDisconnected ==
  /\ wm.connected
  /\ wm' = handleDisconnection(wm, "event")
  /\ UNCHANGED wmFrame

\* disconnect, lines 449-452: handleDisconnection has no await, so the
\* assignment of line 451 follows it before any timer can run
WmDisconnect ==
  /\ wm' = [handleDisconnection(wm, "disconnect") EXCEPT
              !.reconnectAttempts = MAX_RECONNECT_ATTEMPTS,
              !.quiet = (wm.user = "idle")]
  /\ UNCHANGED wmFrame

\* lines 333-338: the reconnect timer fires
WmTimer ==
  /\ wm.reconnectTimer # "none"
  /\ wm.timer = "idle"
  /\ wm' = enterConnect(
             [wm EXCEPT !.reconnectTimer = "none",
                        !.reconnectAttempts = @ + 1,
                        !.autoAfterDisconnect =
                           @ \/ (wm.reconnectTimer = "disconnect" /\ wm.quiet)],
             "timer")
  /\ UNCHANGED wmFrame

NextWallet ==
  \/ WmUserConnect
  \/ \E k \in Callers : WmConnectWallet(k)
  \/ \E k \in Callers : WmDelay(k)
  \/ \E k \in Callers : WmPoll(k)
  \/ WmWalletDisconnected
  \/ WmDisconnect
  \/ WmTimer

SpecWallet == Init /\ [][NextWallet]_vars

(***************************************************************************)
(* Properties.                                                             *)
(***************************************************************************)
PurchasesOf(p) == {r \in purchases : r.stripe_payment_intent_id = p}
CompletedOf(p) == {r \in PurchasesOf(p) : r.payment_status = "completed"}
Done(d)        == pc[d] = "done"
Answered(d)    == Done(d) /\ response[d].status = 200
DeliveriesOf(p) == {d \in Deliveries : /\ pc[d] # "idle" /\ ~hist.badSig[d]
                                       /\ local[d].ev \in Checkouts
                                       /\ Event(local[d].ev).pay = p}

\* C1: for every payment identifier there is never more than one Purchase row,
\* whatever the number and interleaving of the deliveries of its event, and
\* there is exactly one once a delivery of the event has been answered and no
\* fulfillment step of any delivery of that payment has failed.
C1_OnePurchasePerPayment ==
  \A p \in Payments :
    /\ Cardinality(PurchasesOf(p)) <= 1
    /\ ( /\ \E d \in DeliveriesOf(p) : Answered(d)
         /\ \A d \in DeliveriesOf(p) : ~hist.faulted[d] )
       => Cardinality(PurchasesOf(p)) = 1

\* two deliveries of one payment raced to insert; one row is left
C1_Witness ==
  \E p \in Payments : \E d1, d2 \in DeliveriesOf(p) :
    /\ d1 # d2 /\ Answered(d1) /\ Answered(d2)
    /\ "purchase" \in hist.effects[d1]
    /\ hist.raceLost[d2]
    /\ \A d \in DeliveriesOf(p) : ~hist.faulted[d]
    /\ Cardinality(PurchasesOf(p)) = 1

\* C2: a payment processed for an artwork whose current_editions equals
\* max_editions (the increment found the artwork sold out) never leaves a
\* completed Purchase once its delivery has been answered.
C2_SoldOutLeavesNoPurchase ==
  \A d \in Deliveries :
    (Answered(d) /\ hist.soldOutAt[d]) => CompletedOf(Event(local[d].ev).pay) = {}

\* C3: in every reachable state every artwork has
\* current_editions <= max_editions.
C3_CurrentAtMostMax ==
  \A a \in Artworks : artworks[a].current_editions <= artworks[a].max_editions

\* an increment was attempted on a sold-out artwork
C3_Witness ==
  \E d \in Deliveries :
    /\ hist.soldOutAt[d]
    /\ LET a == Event(local[d].ev).artworkId
       IN  artworks[a].current_editions = artworks[a].max_editions

\* C4: over all deliveries of its event, the edition counter is incremented at
\* most once on behalf of one payment identifier.
C4_OneIncrementPerPayment ==
  \A p \in Payments : hist.incCount[p] <= 1

\* C5: a redelivery that arrives after processing of the same checkout event
\* failed at a step that leaves no Purchase, and when no step fails any more,
\* has a Purchase for the payment once it is answered.
C5_FailedPaymentRecovered ==
  \A d \in Deliveries :
    ( /\ Answered(d)
      /\ local[d].ev \in Checkouts
      /\ hist.cleanStart[d]
      /\ hist.after[d].error \in {ErrInsert, ErrEditions, ErrToken, ErrArtwork} )
    => PurchasesOf(Event(local[d].ev).pay) # {}

\* C6: a delivery whose signature does not verify is answered at once with the
\* 400 signature error, never consults the ledger, performs no fulfillment
\* step, and its step leaves every table, the email log, the mint queue and
\* both tiers of the ledger unchanged.
C6_InvalidSignatureNoEffect ==
  [][\A d \in Deliveries :
       hist'.badSig[d] =>
         /\ pc'[d] = "done"
         /\ response'[d] = [status |-> 400, body |-> [error |-> ErrSignature]]
         /\ ~hist'.ledgerRead[d]
         /\ hist'.effects[d] = {}
         /\ (~hist.badSig[d] => UNCHANGED <<db, ledger>>)]_vars

\* a delivery with an invalid signature was rejected after purchases existed
C6_Witness ==
  \E d \in Deliveries :
    /\ hist.badSig[d] /\ Done(d) /\ response[d].status = 400
    /\ purchases # {}

C8_RedeliverySameResponse ==
  \A d \in Deliveries :
    (Answered(d) /\ hist.after[d].received)
    => /\ response[d].body = hist.after[d]
       /\ hist.effects[d] \cap {"purchase", "token"} = {}

\* C9: a delivery whose Purchase insert hit the uniqueness violation is
\* answered with the success result and has performed no fulfillment step.
C9_RaceLoserSucceeds ==
  \A d \in Deliveries :
    (Done(d) /\ hist.raceLost[d])
    => /\ response[d].body = Ok
       /\ hist.effects[d] = {}

Returned(d) == pc[d] \in {"mark", "markdb"}   \* processEventWithTransaction has returned
RowOf(d)    == {r \in purchases : r.id = local[d].purchaseId}
TokensOf(id) == {t \in download_tokens : t.purchase_id = id}

\* C11: when a delivery inserted its Purchase and its edition increment did
\* not succeed (sold out or storage error), then once processing has returned
\* the Purchase it inserted is gone and the result is a failure.
C11_NoPurchaseWithoutEdition ==
  \A d \in Deliveries :
    ( /\ Returned(d)
      /\ "purchase" \in hist.effects[d]
      /\ "increment" \notin hist.effects[d] )
    => /\ RowOf(d) = {}
       /\ ~local[d].result.received

\* C12: a Purchase that has a DownloadToken is never deleted.
C12_NoDeleteAfterToken ==
  [][\A r \in purchases :
       TokensOf(r.id) # {} => \E q \in purchases' : q.id = r.id]_vars

\* C13: a delivery that inserted the Purchase, incremented the counter and
\* created the DownloadToken returns success.
C13_SuccessAfterToken ==
  \A d \in Deliveries :
    ( /\ Returned(d)
      /\ {"purchase", "increment", "token"} \subseteq hist.effects[d] )
    => local[d].result = Ok

\* C14: when every email send attempt of a delivery failed, its Purchase and
\* DownloadToken are kept, download_sent is false and the result is success;
\* a Purchase has download_sent only if a send attempt for it succeeded.
C14_EmailFailureKeepsPurchase ==
  /\ \A d \in Deliveries :
       hist.emailOutcome[d] = "failed" =>
         /\ Returned(d) =>
              /\ local[d].result = Ok
              /\ RowOf(d) # {}
              /\ \A r \in RowOf(d) : ~r.download_sent /\ TokensOf(r.id) # {}
         /\ Answered(d) =>
              /\ response[d].body = Ok
              /\ PurchasesOf(Event(local[d].ev).pay) # {}
              /\ \A r \in PurchasesOf(Event(local[d].ev).pay) :
                   ~r.download_sent /\ TokensOf(r.id) # {}
  /\ \A r \in purchases :
       r.download_sent =>
         \E d \in DeliveriesOf(r.stripe_payment_intent_id) :
           hist.emailOutcome[d] = "sent"

\* every attempt failed, the delivery was answered with success
C14_Witness ==
  \E d \in Deliveries :
    /\ hist.emailOutcome[d] = "failed" /\ Answered(d)
    /\ response[d].body = Ok
    /\ \E r \in PurchasesOf(Event(local[d].ev).pay) : ~r.download_sent

\* C15: all deliveries of the event of one payment together start at most one
\* email send sequence, and exactly one once a delivery has reached the email
\* step.
C15_OneEmailSequence ==
  \A p \in Payments :
    /\ emailLog[p] <= 1
    /\ (\E d \in DeliveriesOf(p) : hist.emailOutcome[d] # "none") => emailLog[p] = 1

\* the event was delivered again after the email, past the ledger, and again
\* concurrently with the delivery that sent it
C15_Witness ==
  \E p \in Payments : \E d1, d2 \in DeliveriesOf(p) :
    /\ d1 # d2 /\ Answered(d1) /\ Answered(d2)
    /\ hist.emailOutcome[d1] # "none"
    /\ hist.sawPurchase[d2] \/ hist.raceLost[d2]
    /\ emailLog[p] = 1

\* C16: a delivery none of whose steps failed and whose increment found
\* current_editions < max_editions has, when processing returns: one Purchase
\* for the payment, not minted, completed unless a payment-failed event was
\* received; exactly one DownloadToken for it, unused, limited to 3 uses and
\* expiring 7 days after creation; a mint job if and only if a wallet address
\* was supplied; result success.  Its increment raised current_editions by
\* exactly 1.
C16_Returned(d) ==
  LET e == local[d].ev
      p == Event(e).pay
  IN  /\ local[d].result = Ok
      /\ RowOf(d) = PurchasesOf(p)
      /\ Cardinality(RowOf(d)) = 1
      /\ \A r \in RowOf(d) :
           /\ ~r.nft_minted
           /\ r.artwork_id = Event(e).artworkId
           /\ \/ r.payment_status = "completed"
              \/ \E c \in Deliveries :
                   /\ pc[c] # "idle" /\ ~hist.badSig[c]
                   /\ Event(local[c].ev).type = "payment_intent.payment_failed"
      /\ TokensOf(local[d].purchaseId) =
           {[purchase_id |-> local[d].purchaseId, download_count |-> 0,
             max_downloads |-> 3, expires_at |-> now + 7]}
      /\ (local[d].purchaseId \in mintQueue) <=> Event(e).wallet

C16_FirstDeliveryEffects ==
  /\ [](\A d \in Deliveries :
          ( /\ Returned(d)
            /\ {"purchase", "increment"} \subseteq hist.effects[d]
            /\ ~hist.faulted[d] )
          => C16_Returned(d))
  /\ [][\A d \in Deliveries :
          ( /\ "increment" \notin hist.effects[d]
            /\ "increment" \in hist'.effects[d] )
          => LET a == Event(local[d].ev).artworkId
             IN  /\ artworks[a].current_editions < artworks[a].max_editions
                 /\ artworks'[a].current_editions = artworks[a].current_editions + 1]_vars

\* both kinds of sale went through: with and without a wallet address
C16_Witness ==
  \E d1, d2 \in Deliveries :
    /\ Returned(d1) /\ Answered(d2)
    /\ {"purchase", "increment", "token"} \subseteq hist.effects[d1]
    /\ {"purchase", "increment", "token", "mint"} \subseteq hist.effects[d2]
    /\ ~hist.faulted[d1] /\ ~hist.faulted[d2]
    /\ ~Event(local[d1].ev).wallet
    /\ local[d1].purchaseId \notin mintQueue
    /\ mintQueue # {}

\* a step of the mint job of purchase id (arming the job is not one)
MintStep(id) == mintJobs'[id] # mintJobs[id] /\ mintJobs'[id].pc # "queued"

\* C17: the result of processing a checkout-completed event is produced
\* without waiting for minting: when a step of the mint job of a Purchase is
\* taken (its first step makes the first blockchain call), the delivery that
\* created the Purchase already holds its result, and no step of a mint job
\* changes a result, a response or the ledger; a delivery that queued a mint
\* job is answered with the success result whatever the state of the job.
C17_ResultBeforeMinting ==
  /\ [](\A d \in Deliveries :
          (Done(d) /\ "mint" \in hist.effects[d])
            => response[d] = [status |-> 200, body |-> Ok])
  /\ [][\A id \in PurchaseIds :
          MintStep(id) =>
            /\ \A d \in Deliveries : local[d].purchaseId = id => Returned(d)
            /\ UNCHANGED <<pc, local, response, processedEvents, webhook_events>>]_vars

\* two sales were answered with success; the mint job of one succeeded, the
\* job of the other failed
C17_Witness ==
  \E d1, d2 \in Deliveries : \E id1, id2 \in PurchaseIds :
    /\ d1 # d2 /\ Answered(d1) /\ Answered(d2)
    /\ "mint" \in hist.effects[d1] /\ "mint" \in hist.effects[d2]
    /\ response[d1].body = Ok /\ response[d2].body = Ok
    /\ mintJobs[id1].pc = "minted"
    /\ mintJobs[id2].pc = "failed"
    /\ id2 \in nft_minting_errors

\* the mint jobs that went past the token-id check of their artwork row
JobsOf(a) == {id \in PurchaseIds : /\ mintJobs[id].pc \notin {"none", "queued"}
                                   /\ artworkOf(id) = a}

\* C18: while no step of a mint job has failed, the create-token operation
\* is submitted at most once per artwork, however the sales of the artwork
\* and their mint jobs interleave: a second mint job reuses the token id
\* persisted on the artwork.
C18_CreateTokenOnce ==
  ~hist.mintFault =>
    \A a \in Artworks :
      /\ chain.createTx[a] <= 1
      /\ JobsOf(a) # {} => chain.createTx[a] = 1

\* redemptions of the token of Purchase tok that returned the asset
Served(tok) ==
  Cardinality({r \in Requests : dlResponse[r] = 307 /\ dlLocal[r].token = tok})

\* C19: in every reachable state, for every DownloadToken,
\* download_count <= max_downloads, for any sequence and interleaving of
\* redemption requests.
C19_CountAtMostMax ==
  \A t \in download_tokens : t.download_count <= t.max_downloads

\* a token used up to its limit, and a later request refused for it
C19_Witness ==
  \E t \in download_tokens : \E r \in Requests :
    /\ t.download_count = t.max_downloads
    /\ dlPc[r] = "done" /\ dlLocal[r].token = t.purchase_id
    /\ dlResponse[r] = 429

\* C20: while no storage operation of a redemption has failed, the number of
\* redemptions of one DownloadToken that returned the asset never exceeds its
\* usage limit, also when requests for the token run concurrently.
C20_ServedAtMostMax ==
  ~hist.dlFault =>
    \A t \in download_tokens : Served(t.purchase_id) <= t.max_downloads

\* request r is received in this step (its token is read and judged)
Received(r) == dlPc[r] = "idle" /\ dlPc'[r] # "idle"

C22_OneOutcomePerRequest ==
  [][\A r \in Requests :
       /\ (Received(r) /\ faultsLeft' = faultsLeft) =>
            LET rows == {t \in download_tokens : t.purchase_id = dlLocal'[r].token}
            IN  /\ download_tokens' = download_tokens
                /\ rows = {} => (dlPc'[r] = "done" /\ dlResponse'[r] = 404)
                /\ \A t \in rows :
                     IF t.expires_at < now
                       THEN dlPc'[r] = "done" /\ dlResponse'[r] = 410
                     ELSE IF t.download_count >= t.max_downloads
                       THEN dlPc'[r] = "done" /\ dlResponse'[r] = 429
                     ELSE dlPc'[r] = "update" /\ dlResponse'[r] = 0
       /\ (dlPc[r] = "update" /\ dlPc'[r] = "done" /\ faultsLeft' = faultsLeft) =>
            /\ dlResponse'[r] = 307
            /\ \A t \in download_tokens :
                 t.purchase_id = dlLocal[r].token =>
                   download_tokens' = (download_tokens \ {t}) \cup
                                        {[t EXCEPT !.download_count = @ + 1]}]_vars

\* C23: one call of the email sender makes at most 3 transport send
\* attempts, makes no attempt after the first successful one, and always
\* terminates (returns).
C23_AtMostThreeAttempts ==
  /\ [](\A c \in Calls :
          /\ Len(mail[c].log) <= 3
          /\ \A i \in 1..(Len(mail[c].log) - 1) : mail[c].log[i] # "true")
  /\ \A c \in Calls : (mail[c].pc # "idle") ~> (mail[c].pc = "returned")

\* one call succeeded at its third attempt, another used up its three
\* attempts; both returned
C23_Witness ==
  \E c1, c2 \in Calls :
    /\ mail[c1].pc = "returned" /\ mail[c1].log = <<"throw", "false", "true">>
    /\ mail[c2].pc = "returned" /\ Len(mail[c2].log) = 3
    /\ \A i \in 1..3 : mail[c2].log[i] # "true"

\* C24: the email sender never throws to its caller and returns a boolean:
\* true iff some attempt succeeded, false when every attempt failed, whether
\* a failed attempt returned false or threw.
C24_ReturnsBoolean ==
  \A c \in Calls :
    /\ mail[c].pc # "thrown"
    /\ mail[c].pc = "returned" =>
         /\ mail[c].ret \in {"true", "false"}
         /\ mail[c].ret = "true" <=>
              \E i \in 1..Len(mail[c].log) : mail[c].log[i] = "true"
         /\ mail[c].ret = "false" =>
              Len(mail[c].log) = 3

\* a call whose attempts failed in both ways returned false, another returned
\* true after an attempt that threw
C24_Witness ==
  \E c1, c2 \in Calls :
    /\ mail[c1].pc = "returned" /\ mail[c1].ret = "false"
    /\ mail[c1].log = <<"false", "throw", "throw">>
    /\ mail[c2].pc = "returned" /\ mail[c2].ret = "true"
    /\ mail[c2].log = <<"throw", "true">>

C26_LedgerNeverOverwritten ==
  [][\A k \in Keys :
       /\ (processedEvents[k] # NoResult /\ processedEvents'[k] # NoResult)
            => processedEvents'[k] = processedEvents[k]
       /\ (webhook_events[k] # NoResult)
            => webhook_events'[k] = webhook_events[k]]_vars

\* C29: the ledger writes the durable store first and the cache afterwards:
\* while a delivery that is recording its result has not yet attempted the
\* durable write, and no other delivery of the key has been answered or has
\* stored a durable record, the cache holds no result for the key.
C29_DurableBeforeCache ==
  \A d \in Deliveries :
    ( /\ pc[d] \in {"mark", "markdb"}
      /\ webhook_events[local[d].key] = NoResult
      /\ \A c \in Deliveries :
           (c # d /\ local[c].key = local[d].key) => pc[c] \in {"mark", "markdb"} )
    => processedEvents[local[d].key] = NoResult

\* C30: when the durable ledger write of a delivery fails, the handler still
\* answers with the result of processing the event, and the Purchases,
\* edition counters and DownloadTokens are left as they are.
C30_DurableFailureKeepsResult ==
  [][\A d \in Deliveries :
       (pc[d] = "markdb" /\ pc'[d] = "done" /\ faultsLeft' < faultsLeft) =>
         /\ response'[d] = [status |-> 200, body |-> local[d].result]
         /\ UNCHANGED <<artworks, purchases, download_tokens>>]_vars

\* a delivery that created a Purchase was answered with success although its
\* durable ledger write failed
C30_Witness ==
  \E d \in Deliveries : \E r \in purchases :
    /\ Answered(d) /\ response[d].body = Ok
    /\ {"purchase", "increment", "token"} \subseteq hist.effects[d]
    /\ ~hist.faulted[d]
    /\ faultsLeft = 0
    /\ webhook_events[local[d].key] = NoResult
    /\ r.stripe_payment_intent_id = Event(local[d].ev).pay
    /\ TokensOf(r.id) # {}

\* C27: a step of a mint job never changes a Purchase's payment_status: the
\* step that records a successful mint only sets nft_minted, nft_token_id and
\* nft_tx_hash of its Purchase, the step that ends a failed job only writes
\* the failure record, and no other step of a job changes a Purchase.
C27_MintKeepsPaymentStatus ==
  [][\A id \in PurchaseIds :
       MintStep(id) =>
         /\ \A r \in purchases :
              \E q \in purchases' :
                /\ q.id = r.id
                /\ q.payment_status = r.payment_status
                /\ r.id # id => q = r
                /\ [q EXCEPT !.nft_minted = r.nft_minted,
                             !.nft_token_id = r.nft_token_id,
                             !.nft_tx_hash = r.nft_tx_hash] = r
         /\ Cardinality(purchases') = Cardinality(purchases)
         /\ mintJobs'[id].pc # "minted" => purchases' = purchases
         /\ mintJobs'[id].pc = "failed" =>
              nft_minting_errors' = nft_minting_errors \cup {id}
         /\ mintJobs'[id].pc # "failed" =>
              nft_minting_errors' = nft_minting_errors]_vars

\* one Purchase carries its mint, another has a failure record; both are
\* still completed
C27_Witness ==
  \E r1, r2 \in purchases :
    /\ r1.nft_minted /\ r1.nft_tx_hash # NoTx /\ r1.nft_token_id # NoToken
    /\ r1.payment_status = "completed"
    /\ mintJobs[r1.id].pc = "minted"
    /\ ~r2.nft_minted /\ r2.id \in nft_minting_errors
    /\ r2.payment_status = "completed"
    /\ mintJobs[r2.id].pc = "failed"

\* a completed Purchase of a buyer who supplied a wallet address
WalletPurchase(id) ==
  \E r \in purchases : /\ r.id = id /\ r.buyer_wallet
                        /\ r.payment_status = "completed"

\* the terminal mint record of Purchase id: the mint on the Purchase, or a
\* failure record
MintRecorded(id) ==
  \/ \E r \in purchases : r.id = id /\ r.nft_minted /\ r.nft_tx_hash # NoTx
  \/ id \in nft_minting_errors

\* C28: every completed Purchase that supplied a wallet address eventually
\* has a persisted terminal mint record (unless the Purchase is rolled back):
\* the Purchase is marked nft_minted with its transaction hash, or a mint
\* failure record exists for it.
C28_TerminalMintRecord ==
  \A id \in PurchaseIds :
    WalletPurchase(id) ~> (~WalletPurchase(id) \/ MintRecorded(id))

\* C31: for any number of sales of an artwork that has no token id yet, in
\* any interleaving of their mint jobs, at most 2 create-token transactions
\* are submitted for the artwork.
C31_AtMostTwoCreateTx ==
  \A a \in Artworks : chain.createTx[a] <= 2

\* C38: within one call of the email sender a backoff wait occurs between
\* every two consecutive send attempts, 2 s before the second attempt and 4 s
\* before the third, whether the failed attempt returned false or threw.
C38_BackoffBetweenAttempts ==
  \A c \in Calls :
    mail[c].pc = "try" =>
      /\ Len(mail[c].waits) = Len(mail[c].log)
      /\ \A i \in 1..Len(mail[c].waits) : mail[c].waits[i] = 1000 * (2 ^ i)

\* C39: if the mint transaction of a Purchase is confirmed on chain, the
\* Purchase ends with nft_minted = true and the hash of that transaction and
\* no mint failure record is written for it; a mint failure record exists
\* only for a Purchase whose buyer received no token.
C39_ConfirmedMintIsRecorded ==
  \A id \in PurchaseIds :
    /\ id \in nft_minting_errors => chain.balance[id] = 0
    /\ (chain.balance[id] > 0 /\ mintJobs[id].pc \in {"minted", "failed"}) =>
         \E r \in purchases :
           /\ r.id = id /\ r.nft_minted
           /\ r.nft_tx_hash = txHashOf(id, chain.mintTx[id])

\* C40: after an explicit disconnect() no automatic reconnection happens: no
\* reconnect timer started by that disconnect calls connect, and the state
\* stays connected = false until the user calls connectWalletWithRetry again.
C40_NoReconnectAfterDisconnect ==
  /\ ~wm.autoAfterDisconnect
  /\ wm.quiet => ~wm.connected

\* C32: after a create-token transaction is confirmed, createToken returns
\* exactly the token id that the contract assigned and emitted in its
\* creation event.
C32_ReturnsAssignedTokenId ==
  (/\ svc.method = "createToken"
   /\ svc.pc \in {"returned", "thrown"}
   /\ svc.assigned # NoToken
   /\ svc.status = "confirmed")
    => (svc.pc = "returned" /\ svc.ret = svc.assigned)

\* C34: the transaction monitor classifies an outcome as confirmed iff the
\* receipt reports success, as failed iff the receipt reports a revert, and
\* as timed-out, distinct from failed, when the wait ends without a receipt
\* (by timeout or error); a timed-out outcome does not end the mint attempt
\* as failed.
C34_MonitorClassification ==
  svc.wait # "none" =>
    /\ svc.status = "confirmed" <=> svc.wait = "success"
    /\ svc.status = "failed" <=> svc.wait = "revert"
    /\ svc.wait \in {"null", "error"} => svc.err # "Transaction failed"

\* the mint call in progress estimated a gas price above the ceiling and is
\* past its price check
PriceExceeded ==
  /\ svc.method = "mintToken"
  /\ svc.pc \notin {"idle", "estimate", "check"}
  /\ svc.atCheck.gasPrice > MAX_GAS_PRICE

\* C35: when the estimated gas price of a mint exceeds the ceiling, the
\* priority fee is reduced exactly once (halved, rounding down) and the
\* maximum fee recomputed from it; the mint transaction is submitted only if
\* the recomputed maximum fee is within the ceiling, and otherwise the mint
\* fails with gas-price-too-high without submitting any transaction.
C35_ReducedOnceThenCeiling ==
  PriceExceeded =>
    /\ svc.reduced = 1
    /\ svc.gas.maxPriorityFeePerGas = svc.atCheck.maxPriorityFeePerGas \div 2
    /\ svc.gas.maxFeePerGas = svc.atCheck.gasPrice + svc.gas.maxPriorityFeePerGas
    /\ svc.sent # <<>> => svc.gas.maxFeePerGas <= MAX_GAS_PRICE
    /\ svc.gas.maxFeePerGas > MAX_GAS_PRICE =>
         /\ svc.pc = "thrown" /\ svc.err = "Gas price too high"
         /\ svc.sent = <<>>

\* a mint whose estimated price was 120 gwei with a priority fee of 3 gwei
\* failed with gas-price-too-high after the fee was halved to 1 gwei
C35_Witness ==
  /\ PriceExceeded
  /\ svc.atCheck.gasPrice = 120 /\ svc.atCheck.maxPriorityFeePerGas = 3
  /\ svc.gas.maxPriorityFeePerGas = 1 /\ svc.gas.maxFeePerGas = 121
  /\ svc.pc = "thrown" /\ svc.err = "Gas price too high"
  /\ svc.sent = <<>>

\* C36: every mint or create-token transaction that is submitted carries a
\* maximum fee per gas no greater than the gas-price ceiling, for every
\* combination of network fee data.
C36_SubmittedFeeWithinCeiling ==
  \A i \in 1..Len(svc.sent) : svc.sent[i].maxFeePerGas <= MAX_GAS_PRICE

\* the estimation of the call in progress failed
EstimationFailed == svc.estimated \in {"estimateGasThrows", "getFeeDataThrows"}

\* C37: the fee estimator never fails: when gas estimation or the fee-data
\* query fails it returns the fixed fallback envelope (gas limit 500000, gas
\* price 10 gwei, priority fee 1 gwei), and the mint or create-token call
\* goes on to submit its transaction with that envelope.
C37_EstimatorFallsBack ==
  /\ [](EstimationFailed =>
          /\ svc.gas.estimatedGas = 500000 /\ svc.gas.gasPrice = 10
          /\ svc.gas.maxFeePerGas = 10 /\ svc.gas.maxPriorityFeePerGas = 1
          /\ svc.err # "Gas price too high"
          /\ \A i \in 1..Len(svc.sent) :
               /\ svc.sent[i].gasLimit = 500000
               /\ svc.sent[i].maxFeePerGas = 10
               /\ svc.sent[i].maxPriorityFeePerGas = 1)
  /\ [][svc.pc = "estimate" => svc'.pc = "check"]_vars
  /\ [][(svc.pc = "check" /\ EstimationFailed) => svc'.pc = "send"]_vars

\* a mint whose gas estimation threw submitted its transaction with the
\* fallback envelope
C37_Witness ==
  /\ svc.method = "mintToken"
  /\ svc.estimated = "estimateGasThrows"
  /\ Len(svc.sent) = 1
  /\ svc.sent[1].gasLimit = 500000 /\ svc.sent[1].maxFeePerGas = 10
  /\ svc.sent[1].maxPriorityFeePerGas = 1

\* C33: for each Purchase at most one mint transaction is ever submitted,
\* whether the transaction is confirmed, fails, or the call ends without a
\* usable receipt: a submission is never repeated.
C33_OneMintSubmission ==
  \A id \in PurchaseIds : chain.mintTx[id] <= 1

\* the mint jobs of two Purchases have ended, each after one submission: the
\* transaction of one failed, the transaction of the other was mined but the
\* call threw
C33_Witness ==
  \E id1, id2 \in PurchaseIds :
    /\ mintJobs[id1].pc = "failed" /\ mintJobs[id2].pc = "failed"
    /\ chain.mintTx[id1] = 1 /\ chain.balance[id1] = 0
    /\ chain.mintTx[id2] = 1 /\ chain.balance[id2] = 1

====
